---- MODULE Spec2Model ----
(***************************************************************************)
(* torch-pme: the parameter validation gate (_utils.py) and the pair       *)
(* potential hierarchy (lib/potentials.py).                                *)
(*                                                                         *)
(* gate   : the last call of _validate_parameters, its arguments as they   *)
(*          are after the call, and its outcome                            *)
(* pot    : the potential object under evaluation                          *)
(* built  : pot as its constructor left it                                 *)
(* last   : the last evaluator call made on pot                            *)
(* first  : the first call made on pot with a one-element array, kept to   *)
(*          compare later calls with                                       *)
(***************************************************************************)
EXTENDS Integers, Sequences, FiniteSets, TLC

VARIABLES gate, pot, built, last, first

vars == <<gate, pot, built, last, first>>

(***************************************************************************)
(* Tensors as the gate sees them: dtype, device, shape (and, for the cell, *)
(* the entries the determinant is taken of).                               *)
(***************************************************************************)
DTypes == {"float32", "float64"}

Devices == {"cpu", "cuda:0"}

MaxRank == 3

Dims == {2, 3}

RECURSIVE ShapesOfRank(_)
ShapesOfRank(n) ==
    IF n = 0 THEN {<<>>}
    ELSE {Append(s, d) : s \in ShapesOfRank(n - 1), d \in Dims}

Shapes == UNION {ShapesOfRank(n) : n \in 0..MaxRank}

\* smearing: Union[float, None]
NoSmearing == [some |-> FALSE, val |-> 0]

Smearings == {NoSmearing} \cup {[some |-> TRUE, val |-> v] : v \in {0, 1}}

\* 3x3 cells [[1,a,0],[b,1,0],[0,0,c]]: regular, singular by a zero row,
\* singular by two equal non-zero rows
CellData ==
    {<<<<1, a, 0>>, <<b, 1, 0>>, <<0, 0, c>>>> : a \in {0, 1}, b \in {0, 1}, c \in {0, 1}}

\* torch.Tensor.det of a [3,3] tensor
det(m) ==
      m[1][1] * (m[2][2] * m[3][3] - m[2][3] * m[3][2])
    - m[1][2] * (m[2][1] * m[3][3] - m[2][3] * m[3][1])
    + m[1][3] * (m[2][1] * m[3][2] - m[2][2] * m[3][1])

Returned == [kind |-> "return", exc |-> "", site |-> ""]

Raise(exc, site) == [kind |-> "raise", exc |-> exc, site |-> site]

\* len(positions): the first dimension; a 0-d tensor has no len()
HasLen(t) == Len(t.shape) > 0

\* list(positions.shape) != [len(positions), 3]
PositionsShapeBad(p) == p.shape # <<p.shape[1], 3>>

\* list(cell.shape) != [3, 3]
CellShapeBad(c) == c.shape # <<3, 3>>

\* the cell compared with its own dtype
CellDtypeBadSelf(a) == a.cell.dtype # a.cell.dtype

\* cell.dtype != positions.dtype
CellDtypeBad(a) == a.cell.dtype # a.positions.dtype

\* `if smearing and ...`: a smearing of 0.0 taken for none
CellDegenerateTruthy(a) ==
    a.smearing # NoSmearing /\ a.smearing.val # 0 /\ det(a.cell.data) = 0

\* smearing is not None and torch.equal(cell.det(), 0.0)
CellDegenerate(a) == a.smearing # NoSmearing /\ det(a.cell.data) = 0

\* list(charges.shape) != [num_atoms, charges.shape[1]]
ChargesShapeBad(a) == a.charges.shape # <<a.positions.shape[1], a.charges.shape[2]>>

\* neighbor_indices.shape[1] exists only from rank 2 on
HasSecondDim(t) == Len(t.shape) >= 2

\* neighbor_indices[:, 0].shape: the shape with its second dimension dropped
FirstColumnShape(t) == <<t.shape[1]>> \o SubSeq(t.shape, 3, Len(t.shape))

\* neighbor_distances.shape != neighbor_indices[:, 0].shape
NeighborShapesBad(a) ==
    a.neighbor_distances.shape # FirstColumnShape(a.neighbor_indices)

\* The outcome of _validate_parameters, check by check in the order of the code
Outcome(a) ==
    IF a.positions.dtype # a.dtype THEN Raise("TypeError", "positions.dtype")
    ELSE IF a.positions.device # a.device THEN Raise("ValueError", "positions.device")
    ELSE IF ~HasLen(a.positions) THEN Raise("TypeError", "len(positions)")
    ELSE IF PositionsShapeBad(a.positions) THEN Raise("ValueError", "positions.shape")
    ELSE IF CellShapeBad(a.cell) THEN Raise("ValueError", "cell.shape")
    ELSE IF CellDtypeBad(a) THEN Raise("TypeError", "cell.dtype")
    ELSE IF a.cell.device # a.device THEN Raise("ValueError", "cell.device")
    ELSE IF CellDegenerate(a) THEN Raise("ValueError", "cell.det")
    ELSE IF Len(a.charges.shape) # 2 THEN Raise("ValueError", "charges.dim")
    ELSE IF ChargesShapeBad(a) THEN Raise("ValueError", "charges.shape")
    ELSE IF a.charges.dtype # a.positions.dtype THEN Raise("TypeError", "charges.dtype")
    ELSE IF a.charges.device # a.device THEN Raise("ValueError", "charges.device")
    ELSE IF ~HasSecondDim(a.neighbor_indices)
        THEN Raise("IndexError", "neighbor_indices.shape[1]")
    ELSE IF a.neighbor_indices.shape[2] # 2
        THEN Raise("ValueError", "neighbor_indices.shape")
    ELSE IF a.neighbor_indices.device # a.device
        THEN Raise("ValueError", "neighbor_indices.device")
    ELSE IF NeighborShapesBad(a) THEN Raise("ValueError", "neighbor_distances.shape")
    ELSE IF a.neighbor_distances.device # a.device
        THEN Raise("ValueError", "neighbor_distances.device")
    ELSE IF a.neighbor_distances.dtype # a.positions.dtype
        THEN Raise("TypeError", "neighbor_distances.dtype")
    ELSE Returned

\* A call of the gate: what it was given, what the arguments are afterwards
\* (the gate assigns to none of them) and how it ended
validate_parameters(a) == [called |-> TRUE, given |-> a, args |-> a, out |-> Outcome(a)]

(***************************************************************************)
(* The calls enumerated: a well-formed call with up to two of its tensor   *)
(* attributes replaced by arbitrary values.                                *)
(***************************************************************************)
BaseAtoms == 2

Tensor(dtype, device, shape) == [dtype |-> dtype, device |-> device, shape |-> shape]

WellFormed(dtype, device, smearing, data) ==
    [positions |-> Tensor(dtype, device, <<BaseAtoms, 3>>),
     cell |-> [dtype |-> dtype, device |-> device, shape |-> <<3, 3>>, data |-> data],
     charges |-> Tensor(dtype, device, <<BaseAtoms, 2>>),
     neighbor_indices |-> Tensor("int64", device, <<BaseAtoms, 2>>),
     neighbor_distances |-> Tensor(dtype, device, <<BaseAtoms>>),
     smearing |-> smearing,
     dtype |-> dtype,
     device |-> device]

Slots ==
    ({"positions", "cell", "charges", "neighbor_distances"} \X {"dtype"})
    \cup ({"positions", "cell", "charges", "neighbor_indices", "neighbor_distances"}
          \X {"device", "shape"})

SlotValues(slot) ==
    IF slot[2] = "dtype" THEN DTypes
    ELSE IF slot[2] = "device" THEN Devices
    ELSE Shapes

With(a, slot, v) == [a EXCEPT ![slot[1]][slot[2]] = v]

NoCall == [called |-> FALSE]

ValidateCall ==
    /\ gate = NoCall
    /\ \E dtype \in DTypes, device \in Devices, smearing \in Smearings, data \in CellData :
        \E s1 \in Slots, s2 \in Slots :
            \E v1 \in SlotValues(s1), v2 \in SlotValues(s2) :
                gate' = validate_parameters(
                            With(With(WellFormed(dtype, device, smearing, data), s1, v1),
                                 s2, v2))
    /\ UNCHANGED <<pot, built, last, first>>

\* The call is over: its arguments and outcome are dropped, nothing is retained
Discard == gate # NoCall /\ gate' = NoCall /\ UNCHANGED <<pot, built, last, first>>

(***************************************************************************)
(* The shape, precision and locality rules of the gate, stated on the      *)
(* arguments alone, and the class of error each raise statement signals.   *)
(***************************************************************************)
IsAtomsByThree(shape) == Len(shape) = 2 /\ shape[2] = 3

ShapeRulesHold(a) ==
    /\ IsAtomsByThree(a.positions.shape)
    /\ a.cell.shape = <<3, 3>>
    /\ Len(a.charges.shape) = 2
    /\ a.charges.shape[1] = a.positions.shape[1]
    /\ Len(a.neighbor_indices.shape) = 2
    /\ a.neighbor_indices.shape[2] = 2
    /\ a.neighbor_distances.shape = <<a.neighbor_indices.shape[1]>>

FloatTensors == {"positions", "cell", "charges", "neighbor_distances"}

AllTensors == FloatTensors \cup {"neighbor_indices"}

TypeSites == {"positions.dtype", "cell.dtype", "charges.dtype", "neighbor_distances.dtype"}

LocalitySites ==
    {"positions.device", "cell.device", "charges.device", "neighbor_indices.device",
     "neighbor_distances.device"}

ShapeSites ==
    {"positions.shape", "cell.shape", "charges.dim", "charges.shape",
     "neighbor_indices.shape", "neighbor_distances.shape"}

\* The class an error belongs to: that of the raise statement it comes from; an
\* error raised by the runtime instead has the class its exception type signals
ErrorClass(out) ==
    IF out.site \in TypeSites THEN "type-mismatch"
    ELSE IF out.site \in LocalitySites THEN "locality-mismatch"
    ELSE IF out.site \in ShapeSites THEN "shape-mismatch"
    ELSE IF out.site = "cell.det" THEN "degenerate-geometry"
    ELSE IF out.exc = "TypeError" THEN "type-mismatch"
    ELSE "unclassified"

FourClasses ==
    {"type-mismatch", "locality-mismatch", "shape-mismatch", "degenerate-geometry"}

\* The rules in their order: 1, 2, 3, 4 (shape, precision, locus), 5,
\* 6 (shape, precision, locus), 7 (neighbor data, in no stated order)
RuleViolated(a, i) ==
    CASE i = 1 -> a.positions.dtype # a.dtype
      [] i = 2 -> a.positions.device # a.device
      [] i = 3 -> ~IsAtomsByThree(a.positions.shape)
      [] i = 4 -> a.cell.shape # <<3, 3>>
      [] i = 5 -> a.cell.dtype # a.positions.dtype
      [] i = 6 -> a.cell.device # a.positions.device
      [] i = 7 -> a.smearing.some /\ a.cell.shape = <<3, 3>> /\ det(a.cell.data) = 0
      [] i = 8 -> ~(/\ Len(a.charges.shape) = 2
                    /\ IsAtomsByThree(a.positions.shape)
                    /\ a.charges.shape[1] = a.positions.shape[1])
      [] i = 9 -> a.charges.dtype # a.positions.dtype
      [] i = 10 -> a.charges.device # a.positions.device
      [] i = 11 -> ~(Len(a.neighbor_indices.shape) = 2 /\ a.neighbor_indices.shape[2] = 2)
      [] i = 12 -> ~(/\ Len(a.neighbor_indices.shape) >= 1
                     /\ a.neighbor_distances.shape = <<a.neighbor_indices.shape[1]>>)
      [] i = 13 -> a.neighbor_distances.dtype # a.positions.dtype
      [] i = 14 -> a.neighbor_distances.device # a.positions.device
      [] i = 15 -> a.neighbor_indices.device # a.positions.device

RuleClass(i) ==
    IF i \in {1, 5, 9, 13} THEN "type-mismatch"
    ELSE IF i \in {2, 6, 10, 14, 15} THEN "locality-mismatch"
    ELSE IF i = 7 THEN "degenerate-geometry"
    ELSE "shape-mismatch"

Rules == 1..15

NeighborRules == 11..15

ViolatedRules(a) == {i \in Rules : RuleViolated(a, i)}

ViolatedClasses(a) == {RuleClass(i) : i \in ViolatedRules(a)}

\* The classes the first violated rule allows: its own, or for the neighbor
\* rules, which have no order among them, that of any violated one
Lowest(S) == CHOOSE i \in S : \A j \in S : i <= j

ExpectedClasses(a) ==
    LET v == ViolatedRules(a)
    IN  IF Lowest(v) \in NeighborRules THEN {RuleClass(i) : i \in v}
        ELSE {RuleClass(Lowest(v))}

\* C1: whenever the gate returns without raising, every shape rule holds:
\* positions [N,3], cell [3,3], charges [N,C] with the same N, neighbor_indices
\* exactly [M,2] and neighbor_distances [M] with the same M.
C1_ReturnImpliesShapes ==
    (gate # NoCall /\ gate.out.kind = "return") => ShapeRulesHold(gate.given)

\* C2: whenever the gate returns without raising, positions, cell, charges and
\* neighbor_distances have the declared dtype, all five tensors are on the
\* declared device, and the arguments are what the caller gave: nothing was
\* converted or replaced.
C2_ReturnImpliesDeclaredDtypeDevice ==
    (gate # NoCall /\ gate.out.kind = "return") =>
        /\ \A t \in FloatTensors : gate.args[t].dtype = gate.args.dtype
        /\ \A t \in AllTensors : gate.args[t].device = gate.args.device
        /\ gate.args = gate.given

C2_Witness ==
    /\ gate # NoCall
    /\ gate.out.kind = "return"
    /\ gate.given.dtype = "float32"
    /\ gate.given.device = "cuda:0"
    /\ gate.given.positions.shape = <<3, 3>>

PassesRules1to4(a) == \A i \in 1..6 : ~RuleViolated(a, i)

\* C3: for inputs that pass rules 1-4, the gate raises the degenerate-geometry
\* error if and only if smearing is not None and the determinant of cell is 0;
\* smearing 0.0 counts as supplied.
C3_DegenerateIffSmearingAndSingular ==
    (gate # NoCall /\ PassesRules1to4(gate.given)) =>
        ((gate.out.kind = "raise" /\ ErrorClass(gate.out) = "degenerate-geometry")
            <=> (gate.given.smearing.some /\ det(gate.given.cell.data) = 0))

C3_Witness ==
    /\ gate # NoCall
    /\ PassesRules1to4(gate.given)
    /\ gate.given.smearing = [some |-> TRUE, val |-> 0]
    /\ gate.given.cell.data = <<<<1, 1, 0>>, <<1, 1, 0>>, <<0, 0, 1>>>>
    /\ gate.out = Raise("ValueError", "cell.det")

\* C4: every call of the gate either returns, or fails with an error of one of
\* the four classes type-mismatch, locality-mismatch, shape-mismatch,
\* degenerate-geometry, and of the class of a rule the input violates.
C4_OutcomeIsReturnOrClassified ==
    gate # NoCall =>
        \/ gate.out.kind = "return"
        \/ /\ gate.out.kind = "raise"
           /\ ErrorClass(gate.out) \in FourClasses
           /\ ErrorClass(gate.out) \in ViolatedClasses(gate.given)

\* C10: when an input violates several rules, the error raised is the one of the
\* lowest-numbered violated rule (1 positions precision, 2 positions locus,
\* 3 positions shape, 4 cell shape, precision, locus, 5 determinant, 6 charges
\* shape, precision, locus, 7 neighbor data); with no rule violated the gate
\* returns.
C10_ErrorOfLowestViolatedRule ==
    gate # NoCall =>
        IF ViolatedRules(gate.given) = {} THEN gate.out.kind = "return"
        ELSE /\ gate.out.kind = "raise"
             /\ ErrorClass(gate.out) \in ExpectedClasses(gate.given)


(***************************************************************************)
(* Numbers.  Tensor elements are reals of the form (n + m*sqrt(2))/d *     *)
(* pi^(h/2), times at most one value g of a regularized incomplete Gamma   *)
(* function that has no closed form, or they are inf or nan.  Exponents    *)
(* are counted in halves.  Every quantity of the potentials is of this     *)
(* form for the distances, smearings and exponents enumerated below; an    *)
(* expression that is not is kept as an uninterpreted term ("sym").        *)
(***************************************************************************)
Plain == <<"one">>

Fin(n, m, d, h, g) == [k |-> "fin", n |-> n, m |-> m, d |-> d, h |-> h, g |-> g]

NaN == [k |-> "nan", n |-> 0, m |-> 0, d |-> 1, h |-> 0, g |-> Plain]

Inf == [k |-> "inf", n |-> 0, m |-> 0, d |-> 1, h |-> 0, g |-> Plain]

Sym(g) == [k |-> "sym", n |-> 0, m |-> 0, d |-> 1, h |-> 0, g |-> g]

Zero == Fin(0, 0, 1, 0, Plain)

One == Fin(1, 0, 1, 0, Plain)

Abs(i) == IF i < 0 THEN -i ELSE i

RECURSIVE GCD(_, _)
GCD(a, b) == IF b = 0 THEN a ELSE GCD(b, a % b)

Norm(n, m, d, h, g) ==
    IF n = 0 /\ m = 0 THEN Zero
    ELSE LET c == GCD(GCD(Abs(n), Abs(m)), Abs(d))
             sgn == IF d < 0 THEN -1 ELSE 1
         IN  Fin(sgn * (n \div c), sgn * (m \div c), Abs(d) \div c, h, g)

Rat(n, d) == Norm(n, 0, d, 0, Plain)

IsZero(v) == v.k = "fin" /\ v.n = 0 /\ v.m = 0

IsScalar(v) == v.k = "fin" /\ v.g = Plain

IsRational(v) == IsScalar(v) /\ v.m = 0 /\ v.h = 0

Mul(v, w) ==
    IF v.k = "nan" \/ w.k = "nan" THEN NaN
    ELSE IF v.k = "sym" \/ w.k = "sym" THEN Sym(<<"mul", v, w>>)
    ELSE IF v.k = "inf" \/ w.k = "inf" THEN (IF IsZero(v) \/ IsZero(w) THEN NaN ELSE Inf)
    ELSE IF IsZero(v) \/ IsZero(w) THEN Zero
    ELSE IF v.g # Plain /\ w.g # Plain THEN Sym(<<"mul", v, w>>)
    ELSE Norm(v.n * w.n + 2 * v.m * w.m, v.n * w.m + v.m * w.n, v.d * w.d, v.h + w.h,
              IF v.g = Plain THEN w.g ELSE v.g)

\* 1/w for a finite non-zero scalar w
Inv(w) == Norm(w.d * w.n, -(w.d * w.m), w.n * w.n - 2 * w.m * w.m, -w.h, Plain)

Div(v, w) ==
    IF v.k = "nan" \/ w.k = "nan" THEN NaN
    ELSE IF v.k = "sym" \/ w.k = "sym" THEN Sym(<<"div", v, w>>)
    ELSE IF w.k = "inf" THEN (IF v.k = "inf" THEN NaN ELSE Zero)
    ELSE IF v.k = "inf" THEN Inf
    ELSE IF IsZero(w) THEN (IF IsZero(v) THEN NaN ELSE Inf)
    ELSE IF w.g # Plain THEN Sym(<<"div", v, w>>)
    ELSE Mul(v, Inv(w))

\* The lower and the upper regularized incomplete Gamma function of the same
\* arguments sum to 1
Complementary(g1, g2) ==
    /\ Len(g1) = 3
    /\ Len(g2) = 3
    /\ {g1[1], g2[1]} = {"P", "Q"}
    /\ g1[2] = g2[2]
    /\ g1[3] = g2[3]

Add(v, w) ==
    IF v.k = "nan" \/ w.k = "nan" THEN NaN
    ELSE IF v.k = "sym" \/ w.k = "sym" THEN Sym(<<"add", v, w>>)
    ELSE IF v.k = "inf" \/ w.k = "inf" THEN Inf
    ELSE IF IsZero(v) THEN w
    ELSE IF IsZero(w) THEN v
    ELSE IF v.g = w.g /\ v.h = w.h
        THEN Norm(v.n * w.d + w.n * v.d, v.m * w.d + w.m * v.d, v.d * w.d, v.h, v.g)
    ELSE IF Complementary(v.g, w.g) /\ [v EXCEPT !.g = Plain] = [w EXCEPT !.g = Plain]
        THEN [v EXCEPT !.g = Plain]
    ELSE Sym(<<"add", v, w>>)

\* v ** e for an integer e
RECURSIVE PowI(_, _)
PowI(v, e) ==
    IF v.k = "nan" THEN NaN
    ELSE IF e = 0 THEN One
    ELSE IF v.k = "inf" THEN (IF e > 0 THEN Inf ELSE Zero)
    ELSE IF ~IsScalar(v) THEN Sym(<<"pow", v, e>>)
    ELSE IF IsZero(v) THEN (IF e > 0 THEN Zero ELSE Inf)
    ELSE IF e > 0 THEN Mul(v, PowI(v, e - 1))
    ELSE Inv(PowI(v, -e))

ISqrt(n) == CHOOSE r \in 0..n : r * r <= n /\ (r + 1) * (r + 1) > n

IsSquare(n) == ISqrt(n) * ISqrt(n) = n

\* torch.sqrt of a non-negative element
Sqrt(v) ==
    IF v.k \in {"nan", "inf"} \/ IsZero(v) THEN v
    ELSE IF ~IsRational(v) \/ v.n < 0 THEN Sym(<<"sqrt", v>>)
    ELSE IF IsSquare(v.n * v.d) THEN Norm(ISqrt(v.n * v.d), 0, v.d, 0, Plain)
    ELSE IF IsSquare(2 * v.n * v.d) THEN Norm(0, ISqrt(2 * v.n * v.d), 2 * v.d, 0, Plain)
    ELSE Sym(<<"sqrt", v>>)

\* v ** (halves / 2)
Pow(v, halves) ==
    IF halves % 2 = 0 THEN PowI(v, halves \div 2) ELSE PowI(Sqrt(v), halves)

\* math.pi ** 1.5
PiToThreeHalves == Fin(1, 0, 1, 3, Plain)

\* gamma(x) = torch.exp(gammaln(x)) at x = z2/2: gammaln is log|Gamma|, and is
\* inf at zero and the negative integers
RECURSIVE gamma(_)
gamma(z2) ==
    IF z2 = 1 THEN Fin(1, 0, 1, 1, Plain)
    ELSE IF z2 = 2 THEN One
    ELSE IF z2 > 2 THEN Mul(Rat(z2 - 2, 2), gamma(z2 - 2))
    ELSE IF z2 % 2 = 0 THEN Inf
    ELSE Mul(Rat(2, -z2), gamma(z2 + 2))

\* torch.special.gammaincc(a, x) at a = a2/2 for x >= 0: nan for a < 0, the
\* limits at a = 0, x = 0 and x = inf, else the value Q(a, x)
gammaincc(a2, x) ==
    IF x.k = "nan" \/ a2 < 0 THEN NaN
    ELSE IF x.k = "sym" THEN Sym(<<"gammaincc", a2, x>>)
    ELSE IF a2 = 0 THEN (IF IsZero(x) THEN NaN ELSE Zero)
    ELSE IF IsZero(x) THEN One
    ELSE IF x.k = "inf" THEN Zero
    ELSE Fin(1, 0, 1, 0, <<"Q", a2, x>>)

\* torch.special.gammainc(a, x), the lower function P(a, x) = 1 - Q(a, x)
gammainc(a2, x) ==
    IF x.k = "nan" \/ a2 < 0 THEN NaN
    ELSE IF x.k = "sym" THEN Sym(<<"gammainc", a2, x>>)
    ELSE IF a2 = 0 THEN (IF IsZero(x) THEN NaN ELSE One)
    ELSE IF IsZero(x) THEN Zero
    ELSE IF x.k = "inf" THEN One
    ELSE Fin(1, 0, 1, 0, <<"P", a2, x>>)


(***************************************************************************)
(* Potentials.  An object is its class, the methods a subclass written by  *)
(* a user overrides, and the fields __init__ sets.  A method returns the   *)
(* object and the argument as it leaves them, and its outcome.             *)
(***************************************************************************)
MaxExponent == 5

MaxLen == 2

SmearingValues == {1, 2}

ElementValues == {0, 1, 2}

Arrays == UNION {[1..n -> {Rat(v, 1) : v \in ElementValues}] : n \in 1..MaxLen}

Done(self, arg, val) ==
    [self |-> self, arg |-> arg, out |-> [kind |-> "return", exc |-> "", val |-> val]]

NotImplemented(self, arg) ==
    [self |-> self, arg |-> arg,
     out |-> [kind |-> "raise", exc |-> "NotImplementedError", val |-> <<>>]]

\* A method of a user's subclass: some function of its argument, element by
\* element
UserMethod(self, method, arg) ==
    Done(self, arg, [i \in DOMAIN arg |-> Sym(<<"user", method, arg[i]>>)])

\* a + b of two method calls: a is evaluated first, an exception propagates
Plus(a, b) ==
    IF a.out.kind = "raise" THEN a
    ELSE IF b.out.kind = "raise" THEN b
    ELSE Done(b.self, b.arg, [i \in DOMAIN a.out.val |-> Add(a.out.val[i], b.out.val[i])])

\* torch.sqrt(dist_sq)
ArraySqrt(arr) == [i \in DOMAIN arr |-> Sqrt(arr[i])]

\* InversePowerLawPotential.__init__
InversePowerLawPotential(exponent, smearing) ==
    [cls |-> "InversePowerLawPotential", overrides |-> {},
     exponent |-> exponent, smearing |-> smearing]

Half == Rat(1, 2)

Two == Rat(2, 1)

\* torch.pow(dist, -self.exponent), at one element
FullAt(exponent, smearing, r) == Pow(r, -2 * exponent)

\* torch.pow(dist_sq, -self.exponent / 2.0), at one element
FullSquaredAt(exponent, smearing, r_sq) == Pow(r_sq, -exponent)

\* x = 0.5 * dist**2 / self.smearing**2
ScaledSquare(smearing, r) == Div(Mul(Half, PowI(r, 2)), PowI(Rat(smearing, 1), 2))

\* prefac = 1.0 / (2 * self.smearing**2) ** peff, with peff = exponent / 2
RealSpacePrefactor(exponent, smearing) ==
    Div(One, Pow(Mul(Two, PowI(Rat(smearing, 1), 2)), exponent))

\* prefac * gammaincc(peff, x) / x**peff, at one element
ShortRangeAt(exponent, smearing, r) ==
    LET x == ScaledSquare(smearing, r)
    IN  Div(Mul(RealSpacePrefactor(exponent, smearing), gammaincc(exponent, x)),
            Pow(x, exponent))

\* lr_from_dist written as a copy of sr_from_dist, the Gamma function not changed
LongRangeAtUpper(exponent, smearing, r) == ShortRangeAt(exponent, smearing, r)

\* prefac * gammainc(peff, x) / x**peff, at one element
LongRangeAt(exponent, smearing, r) ==
    LET x == ScaledSquare(smearing, r)
    IN  Div(Mul(RealSpacePrefactor(exponent, smearing), gammainc(exponent, x)),
            Pow(x, exponent))

\* prefac * gammaincc(peff, x) / x**peff * gamma(peff), with peff = (3 - exponent) / 2,
\* prefac = math.pi**1.5 / gamma(exponent / 2) * (2 * self.smearing**2) ** peff and
\* x = 0.5 * self.smearing**2 * k_sq
FourierFormula(exponent, smearing, k_sq) ==
    LET peff == 3 - exponent
        prefac == Mul(Div(PiToThreeHalves, gamma(exponent)),
                      Pow(Mul(Two, PowI(Rat(smearing, 1), 2)), peff))
        x == Mul(Mul(Half, PowI(Rat(smearing, 1), 2)), k_sq)
    IN  Mul(Div(Mul(prefac, gammaincc(peff, x)), Pow(x, peff)), gamma(peff))

\* from_k_sq without the branch at k_sq == 0
FourierAtUnbranched(exponent, smearing, k_sq) == FourierFormula(exponent, smearing, k_sq)

\* torch.where(k_sq == 0, 0.0, <formula>), at one element
FourierAt(exponent, smearing, k_sq) ==
    IF k_sq = Zero THEN Zero ELSE FourierFormula(exponent, smearing, k_sq)

\* The element values above, computed once for the arguments that occur
Elements == {Rat(v, 1) : v \in ElementValues}

ElementValue(what, exponent, smearing, v) ==
    CASE what = "full" -> FullAt(exponent, smearing, v)
      [] what = "full_sq" -> FullSquaredAt(exponent, smearing, v)
      [] what = "sr" -> ShortRangeAt(exponent, smearing, v)
      [] what = "lr" -> LongRangeAt(exponent, smearing, v)
      [] what = "fourier" -> FourierAt(exponent, smearing, v)

ElementTable ==
    [key \in {"full", "full_sq", "sr", "lr", "fourier"} \X (1..MaxExponent)
                \X SmearingValues \X (Elements \cup {Sqrt(e) : e \in Elements}) |->
        ElementValue(key[1], key[2], key[3], key[4])] @@ <<>>

Tabulated(what, self, v) ==
    LET key == <<what, self.exponent, self.smearing, v>>
    IN  IF key \in DOMAIN ElementTable THEN ElementTable[key]
        ELSE ElementValue(what, self.exponent, self.smearing, v)

\* InversePowerLawPotential.from_dist, from_dist_sq, sr_from_dist, lr_from_dist,
\* from_k_sq: elementwise, assigning to no field of self and to no element of
\* the argument
IPL_from_dist(self, dist) ==
    Done(self, dist, [i \in DOMAIN dist |-> Tabulated("full", self, dist[i])])

IPL_from_dist_sq(self, dist_sq) ==
    Done(self, dist_sq, [i \in DOMAIN dist_sq |-> Tabulated("full_sq", self, dist_sq[i])])

\* sr_from_dist storing its effective exponent in the object
IPL_sr_from_dist_storing(self, dist) ==
    Done([self EXCEPT !.exponent = 2 * self.exponent], dist,
         [i \in DOMAIN dist |-> Tabulated("sr", self, dist[i])])

IPL_sr_from_dist(self, dist) ==
    Done(self, dist, [i \in DOMAIN dist |-> Tabulated("sr", self, dist[i])])

IPL_lr_from_dist(self, dist) ==
    Done(self, dist, [i \in DOMAIN dist |-> Tabulated("lr", self, dist[i])])

IPL_from_k_sq(self, k_sq) ==
    Done(self, k_sq, [i \in DOMAIN k_sq |-> Tabulated("fourier", self, k_sq[i])])

\* RangeSeparatedPotential.sr_from_dist, lr_from_dist
RSP_sr_from_dist(self, dist) == NotImplemented(self, dist)

RSP_lr_from_dist(self, dist) == NotImplemented(self, dist)

\* self.sr_from_dist(dist), self.lr_from_dist(dist): the method of the object's class
Call_sr_from_dist(self, dist) ==
    IF "sr_from_dist" \in self.overrides THEN UserMethod(self, "sr_from_dist", dist)
    ELSE IF self.cls = "InversePowerLawPotential" THEN IPL_sr_from_dist(self, dist)
    ELSE RSP_sr_from_dist(self, dist)

Call_lr_from_dist(self, dist) ==
    IF "lr_from_dist" \in self.overrides THEN UserMethod(self, "lr_from_dist", dist)
    ELSE IF self.cls = "InversePowerLawPotential" THEN IPL_lr_from_dist(self, dist)
    ELSE RSP_lr_from_dist(self, dist)

\* RangeSeparatedPotential.from_dist
RSP_from_dist(self, dist) ==
    Plus(Call_sr_from_dist(self, dist), Call_lr_from_dist(self, dist))

\* from_dist of the base class returning zeros instead of raising
Base_from_dist_zeros(self, dist) == Done(self, dist, [i \in DOMAIN dist |-> Zero])

\* BasePotential.from_dist
Base_from_dist(self, dist) == NotImplemented(self, dist)

\* self.from_dist(dist)
Call_from_dist(self, dist) ==
    IF "from_dist" \in self.overrides THEN UserMethod(self, "from_dist", dist)
    ELSE IF self.cls = "InversePowerLawPotential" THEN IPL_from_dist(self, dist)
    ELSE IF self.cls = "RangeSeparatedPotential" THEN RSP_from_dist(self, dist)
    ELSE Base_from_dist(self, dist)

\* BasePotential.from_dist_sq
Base_from_dist_sq(self, dist_sq) ==
    [Call_from_dist(self, ArraySqrt(dist_sq)) EXCEPT !.arg = dist_sq]

\* RangeSeparatedPotential.from_dist_sq
RSP_from_dist_sq(self, dist_sq) ==
    LET dist == ArraySqrt(dist_sq)
    IN  [Plus(Call_sr_from_dist(self, dist), Call_lr_from_dist(self, dist))
            EXCEPT !.arg = dist_sq]

\* self.from_dist_sq(dist_sq)
Call_from_dist_sq(self, dist_sq) ==
    IF "from_dist_sq" \in self.overrides THEN UserMethod(self, "from_dist_sq", dist_sq)
    ELSE IF self.cls = "InversePowerLawPotential" THEN IPL_from_dist_sq(self, dist_sq)
    ELSE IF self.cls = "RangeSeparatedPotential" THEN RSP_from_dist_sq(self, dist_sq)
    ELSE Base_from_dist_sq(self, dist_sq)

\* The objects: the three classes of the module, and subclasses of the two
\* interface classes that override some of their methods
Plainly(cls, overrides) ==
    [cls |-> cls, overrides |-> overrides, exponent |-> 0, smearing |-> 0]

Objects ==
    {InversePowerLawPotential(p, sigma) : p \in 1..MaxExponent, sigma \in SmearingValues}
    \cup {Plainly("BasePotential", ov) : ov \in SUBSET {"from_dist", "from_dist_sq"}}
    \cup {Plainly("RangeSeparatedPotential", ov) :
            ov \in SUBSET {"sr_from_dist", "lr_from_dist", "from_dist", "from_dist_sq"}}

NoPot == [cls |-> "none"]

NoEval == [method |-> "none"]

Init == gate = NoCall /\ pot = NoPot /\ built = NoPot /\ last = NoEval /\ first = NoEval

Construct ==
    /\ pot = NoPot
    /\ \E obj \in Objects : pot' = obj /\ built' = obj
    /\ UNCHANGED <<gate, last, first>>

\* The state after a call of an evaluator of pot: r is what the method returned.
\* first keeps the first call made on an InversePowerLawPotential with a
\* one-element array, and whether a different call has been made since.
Called(method, given, r) ==
    LET call == [method |-> method, given |-> given, arg |-> r.arg, out |-> r.out]
    IN  /\ pot' = r.self
        /\ last' = call
        /\ first' =
            IF first = NoEval
            THEN IF Len(given) = 1 /\ pot.cls = "InversePowerLawPotential"
                 THEN [call |-> call, between |-> FALSE]
                 ELSE first
            ELSE [first EXCEPT !.between =
                    @ \/ first.call.method # method \/ first.call.given # given]
        /\ UNCHANGED <<gate, built>>

from_dist ==
    /\ pot # NoPot
    /\ \E arg \in Arrays : \E r \in {Call_from_dist(pot, arg)} : Called("from_dist", arg, r)

from_dist_sq ==
    /\ pot # NoPot
    /\ \E arg \in Arrays :
        \E r \in {Call_from_dist_sq(pot, arg)} : Called("from_dist_sq", arg, r)

sr_from_dist ==
    /\ pot # NoPot
    /\ pot.cls # "BasePotential"
    /\ \E arg \in Arrays :
        \E r \in {Call_sr_from_dist(pot, arg)} : Called("sr_from_dist", arg, r)

lr_from_dist ==
    /\ pot # NoPot
    /\ pot.cls # "BasePotential"
    /\ \E arg \in Arrays :
        \E r \in {Call_lr_from_dist(pot, arg)} : Called("lr_from_dist", arg, r)

from_k_sq ==
    /\ pot # NoPot
    /\ pot.cls = "InversePowerLawPotential"
    /\ \E arg \in Arrays : \E r \in {IPL_from_k_sq(pot, arg)} : Called("from_k_sq", arg, r)

(***************************************************************************)
(* Properties of the potentials                                            *)
(***************************************************************************)
IsIPL == pot # NoPot /\ pot.cls = "InversePowerLawPotential"

NotImplementedRaised(out) ==
    out = [kind |-> "raise", exc |-> "NotImplementedError", val |-> <<>>]

\* C5: from_k_sq returns exactly 0 at every position where k_sq is 0, for every
\* exponent and smearing, also where the formula is not finite there; at every
\* other position it returns the value of the formula.
C5_ZeroExactlyAtZeroWavevector ==
    (IsIPL /\ last.method = "from_k_sq") =>
        /\ last.out.kind = "return"
        /\ DOMAIN last.out.val = DOMAIN last.given
        /\ \A i \in DOMAIN last.given :
            last.out.val[i] =
                IF last.given[i] = Zero THEN Zero
                ELSE FourierFormula(built.exponent, built.smearing, last.given[i])

C5_Witness ==
    /\ IsIPL
    /\ built.exponent > 3
    /\ last.method = "from_k_sq"
    /\ last.given = <<Zero, Two>>
    /\ last.out.val = <<Zero, FourierFormula(built.exponent, built.smearing, Two)>>
    /\ FourierFormula(built.exponent, built.smearing, Zero).k # "fin"

AllPositive(arr) == \A i \in DOMAIN arr : IsRational(arr[i]) /\ arr[i].n > 0

\* C6: for every exponent p > 0, smearing > 0 and distance r > 0,
\* sr_from_dist(r) + lr_from_dist(r) equals from_dist(r), which is r^(-p).
C6_ShortPlusLongIsFull ==
    (IsIPL /\ last.method = "sr_from_dist" /\ AllPositive(last.given)) =>
        /\ last.out.kind = "return"
        /\ \A i \in DOMAIN last.given :
            LET sum == Add(last.out.val[i], IPL_lr_from_dist(pot, last.given).out.val[i])
            IN  /\ sum = IPL_from_dist(pot, last.given).out.val[i]
                /\ sum = Rat(last.given[i].d ^ built.exponent,
                             last.given[i].n ^ built.exponent)

C6_Witness ==
    /\ IsIPL
    /\ built.exponent = 1
    /\ built.smearing = 2
    /\ last.method = "sr_from_dist"
    /\ last.given = <<Two, One>>
    /\ last.out.val[1] = Fin(1, 0, 2, 0, <<"Q", 1, Half>>)

\* The classes C7 speaks of: the base class with its default from_dist_sq, the
\* range-separated class (with sr_from_dist and lr_from_dist supplied or not),
\* its subclass that overrides from_dist alone, and the inverse power law
C7_Classes ==
    \/ IsIPL
    \/ pot.cls = "BasePotential" /\ pot.overrides \subseteq {"from_dist"}
    \/ /\ pot.cls = "RangeSeparatedPotential"
       /\ \/ pot.overrides \subseteq {"sr_from_dist", "lr_from_dist"}
          \/ pot.overrides = {"from_dist"}

\* C7: for every potential class and every squared distance d2 >= 0,
\* from_dist_sq(d2) gives the same result as from_dist(sqrt(d2)) of the same
\* object, also for a subclass of RangeSeparatedPotential that overrides only
\* from_dist.
C7_SquaredDistanceAgrees ==
    (pot # NoPot /\ C7_Classes /\ last.method = "from_dist_sq") =>
        last.out = Call_from_dist(pot, ArraySqrt(last.given)).out

\* The calls that reach a missing evaluator: from_dist and (by delegation) from_dist_sq of
\* BasePotential, sr_from_dist and lr_from_dist of RangeSeparatedPotential, and
\* its from_dist and from_dist_sq whenever sr_from_dist or lr_from_dist is not
\* overridden.
C8_Lacking ==
    /\ pot # NoPot
    /\ last.method # "none"
    /\ last.method \notin pot.overrides
    /\ \/ /\ pot.cls = "BasePotential"
          /\ "from_dist" \notin pot.overrides
          /\ last.method \in {"from_dist", "from_dist_sq"}
       \/ /\ pot.cls = "RangeSeparatedPotential"
          /\ last.method \in {"sr_from_dist", "lr_from_dist"}
       \/ /\ pot.cls = "RangeSeparatedPotential"
          /\ last.method \in {"from_dist", "from_dist_sq"}
          /\ ~({"sr_from_dist", "lr_from_dist"} \subseteq pot.overrides)

\* C8: every call that reaches an evaluator its object lacks ends in
\* NotImplementedError, and no value is returned.
C8_LackingEvaluatorRaises == C8_Lacking => NotImplementedRaised(last.out)

C8_Witness ==
    /\ pot = Plainly("BasePotential", {})
    /\ last.method = "from_dist_sq"
    /\ NotImplementedRaised(last.out)

\* C9: after any sequence of evaluator calls on an InversePowerLawPotential its
\* exponent and smearing are those given at construction and the input array
\* is unchanged, and a call repeating an earlier one, whatever was called in
\* between, has the same output.
C9_EvaluatorsLeaveNoTrace ==
    IsIPL =>
        /\ pot.exponent = built.exponent
        /\ pot.smearing = built.smearing
        /\ last # NoEval => last.arg = last.given
        /\ (first # NoEval /\ last.method = first.call.method
                /\ last.given = first.call.given) => last.out = first.call.out

C9_Witness ==
    /\ IsIPL
    /\ first # NoEval
    /\ first.between
    /\ first.call.method = "lr_from_dist"
    /\ last.method = "lr_from_dist"
    /\ last.given = first.call.given
    /\ last.given = <<Two>>


NextPot ==
    \/ Construct
    \/ from_dist
    \/ from_dist_sq
    \/ sr_from_dist
    \/ lr_from_dist
    \/ from_k_sq

SpecPot == Init /\ [][NextPot]_vars

NextGate == ValidateCall \/ Discard

SpecGate == Init /\ [][NextGate]_vars

====
